---------------------------- MODULE Spec2Model ----------------------------
(***************************************************************************)
(* Photo Data Puller (src/photo_data_puller.py, the multi-format core,     *)
(* lines 1-464): format sniffing, per-format dimension extraction, the     *)
(* JPEG marker walks, the textual heuristics and the scoring / verdict     *)
(* cascade of analyze_photo.                                               *)
(*                                                                         *)
(* Representation.  A byte is an integer 0..255.  Text is the latin-1      *)
(* decoding of the bytes, i.e. the same sequence of code points, so every  *)
(* Python str below is a sequence of code points.  A buffer is a record    *)
(* [body, pad]: the bytes of body followed by pad bytes 0x00; this keeps   *)
(* buffers of 0.1 MiB and 20 MiB representable.  Python's None is the      *)
(* integer None (for Optional[int]) or the sequence NoneStr (for           *)
(* Optional[str]).                                                         *)
(***************************************************************************)
EXTENDS Integers, Sequences, FiniteSets, TLC

\* Python None for Optional[int] (width, height): no unsigned field equals it.
None == -1
\* Python None for Optional[str] (make, model, edit_tag, ...): no byte string,
\* the empty string included, equals it.
NoneStr == << -1 >>
\* A raised exception, as the value of the expression that raised it.
Raised == -2

(***************************************************************************)
(* Catalogs and string literals of the program, as code points.            *)
(***************************************************************************)
KNOWN_MAKES ==
  <<
    <<65, 112, 112, 108, 101>>,  \* "Apple"
    <<83, 97, 109, 115, 117, 110, 103>>,  \* "Samsung"
    <<71, 111, 111, 103, 108, 101>>,  \* "Google"
    <<72, 117, 97, 119, 101, 105>>,  \* "Huawei"
    <<88, 105, 97, 111, 109, 105>>,  \* "Xiaomi"
    <<79, 112, 112, 111>>,  \* "Oppo"
    <<86, 105, 118, 111>>,  \* "Vivo"
    <<79, 110, 101, 80, 108, 117, 115>>,  \* "OnePlus"
    <<82, 101, 97, 108, 109, 101>>,  \* "Realme"
    <<77, 111, 116, 111, 114, 111, 108, 97>>,  \* "Motorola"
    <<83, 111, 110, 121>>,  \* "Sony"
    <<76, 71>>,  \* "LG"
    <<78, 111, 107, 105, 97>>,  \* "Nokia"
    <<65, 115, 117, 115>>,  \* "Asus"
    <<72, 111, 110, 111, 114>>,  \* "Honor"
    <<90, 84, 69>>,  \* "ZTE"
    <<77, 101, 105, 122, 117>>,  \* "Meizu"
    <<76, 101, 110, 111, 118, 111>>,  \* "Lenovo"
    <<65, 108, 99, 97, 116, 101, 108>>,  \* "Alcatel"
    <<84, 67, 76>>,  \* "TCL"
    <<72, 84, 67>>,  \* "HTC"
    <<77, 105, 99, 114, 111, 109, 97, 120>>,  \* "Micromax"
    <<73, 110, 102, 105, 110, 105, 120>>,  \* "Infinix"
    <<84, 101, 99, 110, 111>>,  \* "Tecno"
    <<67, 97, 110, 111, 110>>,  \* "Canon"
    <<78, 105, 107, 111, 110>>,  \* "Nikon"
    <<70, 117, 106, 105, 102, 105, 108, 109>>,  \* "Fujifilm"
    <<79, 108, 121, 109, 112, 117, 115>>,  \* "Olympus"
    <<80, 97, 110, 97, 115, 111, 110, 105, 99>>,  \* "Panasonic"
    <<76, 101, 105, 99, 97>>,  \* "Leica"
    <<80, 101, 110, 116, 97, 120>>,  \* "Pentax"
    <<83, 105, 103, 109, 97>>,  \* "Sigma"
    <<72, 97, 115, 115, 101, 108, 98, 108, 97, 100>>,  \* "Hasselblad"
    <<82, 105, 99, 111, 104>>,  \* "Ricoh"
    <<77, 105, 110, 111, 108, 116, 97>>,  \* "Minolta"
    <<75, 111, 110, 105, 99, 97>>,  \* "Konica"
    <<67, 97, 115, 105, 111>>,  \* "Casio"
    <<75, 111, 100, 97, 107>>,  \* "Kodak"
    <<80, 104, 97, 115, 101, 32, 79, 110, 101>>,  \* "Phase One"
    <<77, 97, 109, 105, 121, 97>>,  \* "Mamiya"
    <<89, 97, 115, 104, 105, 99, 97>>,  \* "Yashica"
    <<67, 111, 110, 116, 97, 120>>,  \* "Contax"
    <<90, 101, 105, 115, 115>>,  \* "Zeiss"
    <<67, 97, 114, 108, 32, 90, 101, 105, 115, 115>>,  \* "Carl Zeiss"
    <<84, 97, 109, 114, 111, 110>>,  \* "Tamron"
    <<84, 111, 107, 105, 110, 97>>,  \* "Tokina"
    <<83, 97, 109, 121, 97, 110, 103>>,  \* "Samyang"
    <<86, 111, 105, 103, 116, 108, 97, 110, 100, 101, 114>>,  \* "Voigtlander"
    <<86, 111, 105, 103, 116, 108, 228, 110, 100, 101, 114>>,  \* "Voigtla-umlautnder"
    <<82, 111, 107, 105, 110, 111, 110>>,  \* "Rokinon"
    <<76, 97, 111, 119, 97>>,  \* "Laowa"
    <<89, 111, 110, 103, 110, 117, 111>>,  \* "Yongnuo"
    <<76, 101, 105, 116, 122>>,  \* "Leitz"
    <<68, 74, 73>>,  \* "DJI"
    <<71, 111, 80, 114, 111>>,  \* "GoPro"
    <<73, 110, 115, 116, 97, 51, 54, 48>>,  \* "Insta360"
    <<66, 108, 97, 99, 107, 109, 97, 103, 105, 99>>,  \* "Blackmagic"
    <<82, 69, 68>>,  \* "RED"
    <<65, 82, 82, 73>>  \* "ARRI"
  >>

CAMERA_MAKES ==
  {
    <<67, 97, 110, 111, 110>>,  \* "Canon"
    <<78, 105, 107, 111, 110>>,  \* "Nikon"
    <<70, 117, 106, 105, 102, 105, 108, 109>>,  \* "Fujifilm"
    <<79, 108, 121, 109, 112, 117, 115>>,  \* "Olympus"
    <<80, 97, 110, 97, 115, 111, 110, 105, 99>>,  \* "Panasonic"
    <<76, 101, 105, 99, 97>>,  \* "Leica"
    <<80, 101, 110, 116, 97, 120>>,  \* "Pentax"
    <<83, 105, 103, 109, 97>>,  \* "Sigma"
    <<72, 97, 115, 115, 101, 108, 98, 108, 97, 100>>,  \* "Hasselblad"
    <<82, 105, 99, 111, 104>>,  \* "Ricoh"
    <<77, 105, 110, 111, 108, 116, 97>>,  \* "Minolta"
    <<75, 111, 110, 105, 99, 97>>,  \* "Konica"
    <<67, 97, 115, 105, 111>>,  \* "Casio"
    <<75, 111, 100, 97, 107>>,  \* "Kodak"
    <<80, 104, 97, 115, 101, 32, 79, 110, 101>>,  \* "Phase One"
    <<77, 97, 109, 105, 121, 97>>,  \* "Mamiya"
    <<89, 97, 115, 104, 105, 99, 97>>,  \* "Yashica"
    <<67, 111, 110, 116, 97, 120>>  \* "Contax"
  }

EDIT_SOFTWARE_TAGS ==
  <<
    <<65, 100, 111, 98, 101>>,  \* "Adobe"
    <<80, 104, 111, 116, 111, 115, 104, 111, 112>>,  \* "Photoshop"
    <<76, 105, 103, 104, 116, 114, 111, 111, 109>>,  \* "Lightroom"
    <<71, 73, 77, 80>>,  \* "GIMP"
    <<65, 102, 102, 105, 110, 105, 116, 121>>,  \* "Affinity"
    <<80, 97, 105, 110, 116, 46, 78, 69, 84>>,  \* "Paint.NET"
    <<67, 111, 114, 101, 108>>,  \* "Corel"
    <<65, 102, 116, 101, 114, 83, 104, 111, 116>>,  \* "AfterShot"
    <<68, 120, 79>>,  \* "DxO"
    <<67, 97, 112, 116, 117, 114, 101, 32, 79, 110, 101>>,  \* "Capture One"
    <<80, 105, 120, 101, 108, 109, 97, 116, 111, 114>>,  \* "Pixelmator"
    <<65, 99, 111, 114, 110>>,  \* "Acorn"
    <<75, 114, 105, 116, 97>>,  \* "Krita"
    <<80, 104, 111, 116, 111, 68, 105, 114, 101, 99, 116, 111, 114>>  \* "PhotoDirector"
  >>

\* "Exif"
S_Exif == <<69, 120, 105, 102>>
\* "Make"
S_Make == <<77, 97, 107, 101>>
\* "Model"
S_Model == <<77, 111, 100, 101, 108>>
\* "iPhone"
S_iPhone == <<105, 80, 104, 111, 110, 101>>
\* "SM-"
S_SM == <<83, 77, 45>>
\* "Pixel"
S_Pixel == <<80, 105, 120, 101, 108>>
\* "Mate"
S_Mate == <<77, 97, 116, 101>>
\* "P20"
S_P20 == <<80, 50, 48>>
\* "P30"
S_P30 == <<80, 51, 48>>
\* "MI "
S_MI == <<77, 73, 32>>
\* "Redmi"
S_Redmi == <<82, 101, 100, 109, 105>>
\* "Samsung Galaxy"
S_SamsungGalaxy == <<83, 97, 109, 115, 117, 110, 103, 32, 71, 97, 108, 97, 120, 121>>
\* "Huawei Phone"
S_HuaweiPhone == <<72, 117, 97, 119, 101, 105, 32, 80, 104, 111, 110, 101>>
\* "Xiaomi Phone"
S_XiaomiPhone == <<88, 105, 97, 111, 109, 105, 32, 80, 104, 111, 110, 101>>
\* "Orientation"
S_Orientation == <<79, 114, 105, 101, 110, 116, 97, 116, 105, 111, 110>>
\* "RIFF"
S_RIFF == <<82, 73, 70, 70>>
\* "WEBP"
S_WEBP == <<87, 69, 66, 80>>
\* "BM"
S_BM == <<66, 77>>
\* "II"
S_II == <<73, 73>>
\* "VP8 "
S_VP8 == <<86, 80, 56, 32>>
\* "VP8L"
S_VP8L == <<86, 80, 56, 76>>
\* "VP8X"
S_VP8X == <<86, 80, 56, 88>>
\* "Missing EXIF metadata"
R_MissingExif == <<77, 105, 115, 115, 105, 110, 103, 32, 69, 88, 73, 70, 32, 109, 101, 116, 97, 100, 97, 116, 97>>
\* "No recognizable make/model detected"
R_NoMakeModel == <<78, 111, 32, 114, 101, 99, 111, 103, 110, 105, 122, 97, 98, 108, 101, 32, 109, 97, 107, 101, 47, 109, 111, 100, 101, 108, 32, 100, 101, 116, 101, 99, 116, 101, 100>>
\* "No JPEG quantization tables found"
R_NoQuant == <<78, 111, 32, 74, 80, 69, 71, 32, 113, 117, 97, 110, 116, 105, 122, 97, 116, 105, 111, 110, 32, 116, 97, 98, 108, 101, 115, 32, 102, 111, 117, 110, 100>>
\* "File too small to be a natural camera photo"
R_TooSmall == <<70, 105, 108, 101, 32, 116, 111, 111, 32, 115, 109, 97, 108, 108, 32, 116, 111, 32, 98, 101, 32, 97, 32, 110, 97, 116, 117, 114, 97, 108, 32, 99, 97, 109, 101, 114, 97, 32, 112, 104, 111, 116, 111>>
\* "Unusually large for a typical JPEG capture"
R_TooLarge == <<85, 110, 117, 115, 117, 97, 108, 108, 121, 32, 108, 97, 114, 103, 101, 32, 102, 111, 114, 32, 97, 32, 116, 121, 112, 105, 99, 97, 108, 32, 74, 80, 69, 71, 32, 99, 97, 112, 116, 117, 114, 101>>
\* "Resolution unusually low"
R_ResLow == <<82, 101, 115, 111, 108, 117, 116, 105, 111, 110, 32, 117, 110, 117, 115, 117, 97, 108, 108, 121, 32, 108, 111, 119>>
\* "Resolution unusually high (possible synthetic or scan)"
R_ResHigh == <<82, 101, 115, 111, 108, 117, 116, 105, 111, 110, 32, 117, 110, 117, 115, 117, 97, 108, 108, 121, 32, 104, 105, 103, 104, 32, 40, 112, 111, 115, 115, 105, 98, 108, 101, 32, 115, 121, 110, 116, 104, 101, 116, 105, 99, 32, 111, 114, 32, 115, 99, 97, 110, 41>>
\* "Editing software tag detected: "
R_EditPrefix == <<69, 100, 105, 116, 105, 110, 103, 32, 115, 111, 102, 116, 119, 97, 114, 101, 32, 116, 97, 103, 32, 100, 101, 116, 101, 99, 116, 101, 100, 58, 32>>
\* "Pattern matches screenshot (no EXIF, common screen aspect ratio)"
R_Screenshot == <<80, 97, 116, 116, 101, 114, 110, 32, 109, 97, 116, 99, 104, 101, 115, 32, 115, 99, 114, 101, 101, 110, 115, 104, 111, 116, 32, 40, 110, 111, 32, 69, 88, 73, 70, 44, 32, 99, 111, 109, 109, 111, 110, 32, 115, 99, 114, 101, 101, 110, 32, 97, 115, 112, 101, 99, 116, 32, 114, 97, 116, 105, 111, 41>>
\* "GPS coordinates embedded (redacted in this report)"
R_Gps == <<71, 80, 83, 32, 99, 111, 111, 114, 100, 105, 110, 97, 116, 101, 115, 32, 101, 109, 98, 101, 100, 100, 101, 100, 32, 40, 114, 101, 100, 97, 99, 116, 101, 100, 32, 105, 110, 32, 116, 104, 105, 115, 32, 114, 101, 112, 111, 114, 116, 41>>
\* "Likely screenshot"
V_Screenshot == <<76, 105, 107, 101, 108, 121, 32, 115, 99, 114, 101, 101, 110, 115, 104, 111, 116>>
\* "Likely standalone camera capture ("
V_StandalonePrefix == <<76, 105, 107, 101, 108, 121, 32, 115, 116, 97, 110, 100, 97, 108, 111, 110, 101, 32, 99, 97, 109, 101, 114, 97, 32, 99, 97, 112, 116, 117, 114, 101, 32, 40>>
\* "Captured with "
V_CapturedPrefix == <<67, 97, 112, 116, 117, 114, 101, 100, 32, 119, 105, 116, 104, 32>>
\* "unknown make"
V_UnknownMake == <<117, 110, 107, 110, 111, 119, 110, 32, 109, 97, 107, 101>>
\* "Likely captured with a real-world camera"
V_Likely == <<76, 105, 107, 101, 108, 121, 32, 99, 97, 112, 116, 117, 114, 101, 100, 32, 119, 105, 116, 104, 32, 97, 32, 114, 101, 97, 108, 45, 119, 111, 114, 108, 100, 32, 99, 97, 109, 101, 114, 97>>
\* "Possibly captured with a real-world camera"
V_Possibly == <<80, 111, 115, 115, 105, 98, 108, 121, 32, 99, 97, 112, 116, 117, 114, 101, 100, 32, 119, 105, 116, 104, 32, 97, 32, 114, 101, 97, 108, 45, 119, 111, 114, 108, 100, 32, 99, 97, 109, 101, 114, 97>>
\* "Insufficient evidence for camera capture"
V_Insufficient == <<73, 110, 115, 117, 102, 102, 105, 99, 105, 101, 110, 116, 32, 101, 118, 105, 100, 101, 110, 99, 101, 32, 102, 111, 114, 32, 99, 97, 109, 101, 114, 97, 32, 99, 97, 112, 116, 117, 114, 101>>

(***************************************************************************)
(* bytes: len(data), data[k], data[a:b], b"..." in data, startswith.       *)
(***************************************************************************)
Min(a, b) == IF a < b THEN a ELSE b
Max(a, b) == IF a > b THEN a ELSE b
Abs(x) == IF x < 0 THEN -x ELSE x

\* len(data)
BLen(d) == Len(d.body) + d.pad

\* data[k], 0-based, for 0 <= k < len(data)
At(d, k) == IF k < Len(d.body) THEN d.body[k + 1] ELSE 0

\* data[a:b] for 0 <= a: Python clamps the slice to the buffer, so a slice
\* over the end is shorter than b - a, or empty.
Slice(d, a, b) ==
  LET hi == Min(b, BLen(d))
  IN  IF hi <= a THEN << >> ELSE [k \in 1..(hi - a) |-> At(d, a + k - 1)]

\* data.startswith(prefix)
StartsWith(d, prefix) == Slice(d, 0, Len(prefix)) = prefix

\* sub in s, for a str / bytes value s held as a sequence
SeqContains(s, sub) ==
  \E k \in 0..(Len(s) - Len(sub)) : SubSeq(s, k + 1, k + Len(sub)) = sub

\* sub in ascii_data, where ascii_data = data.decode("latin-1") is the buffer
\* itself.  An occurrence starts inside body or nowhere: every literal searched
\* for starts with a non-zero byte and the padding is 0x00.
Contains(d, sub) ==
  \E k \in 0..(Len(d.body) - 1) : Slice(d, k, k + Len(sub)) = sub

\* struct.unpack of one unsigned field: big-endian / little-endian value of
\* the bytes, or struct.error when the slice has not exactly n bytes.
RECURSIVE BigEndian(_)
BigEndian(s) ==
  IF s = << >> THEN 0 ELSE 256 * BigEndian(SubSeq(s, 1, Len(s) - 1)) + s[Len(s)]

RECURSIVE LittleEndian(_)
LittleEndian(s) ==
  IF s = << >> THEN 0 ELSE s[1] + 256 * LittleEndian(Tail(s))

Unpack(endian, n, s) ==
  IF Len(s) # n THEN Raised
  ELSE IF endian = ">" THEN BigEndian(s) ELSE LittleEndian(s)

\* bitwise helpers on non-negative integers: x & (2^k - 1), x >> k, x << k
Pow2(k) == IF k = 0 THEN 1 ELSE 2 ^ k
LowBits(x, k) == x % Pow2(k)
Shr(x, k) == x \div Pow2(k)
Shl(x, k) == x * Pow2(k)

(***************************************************************************)
(* _sniff_file_type (lines 247-258)                                        *)
(***************************************************************************)
sniff_file_type(d) ==
  IF StartsWith(d, <<255, 216>>) THEN "JPEG"
  ELSE IF StartsWith(d, <<137, 80, 78, 71>>) THEN "PNG"
  ELSE IF StartsWith(d, <<73, 73, 42, 0>>) \/ StartsWith(d, <<77, 77, 0, 42>>)
       THEN "TIFF"
  ELSE IF StartsWith(d, S_RIFF) /\ SeqContains(Slice(d, 8, 16), S_WEBP)
       THEN "WEBP"
  ELSE IF StartsWith(d, S_BM) THEN "BMP"
  ELSE "Unknown"

\* file_type.upper()
Upper(t) == IF t = "Unknown" THEN "UNKNOWN" ELSE t

(***************************************************************************)
(* Dimension extractors (lines 261-319).  Each XxxTry operator is the body *)
(* of the function's try block: a pair (width, height), or RaisedPair when *)
(* a statement of the block raises.  Except(r) is the handler              *)
(* "except Exception: return None, None".                                  *)
(***************************************************************************)
RaisedPair == <<Raised, Raised>>
NonePair == <<None, None>>

Pair(w, h) == IF w = Raised \/ h = Raised THEN RaisedPair ELSE <<w, h>>

\* a function without the handler: what the try block raises reaches the caller
ExceptPropagates(r) == r

Except(r) == IF r = RaisedPair THEN NonePair ELSE r

\* struct.unpack(">II", data[16:24])
PngTry(d) ==
  LET s == Slice(d, 16, 24)
  IN  IF Len(s) # 8 THEN RaisedPair
      ELSE <<BigEndian(SubSeq(s, 1, 4)), BigEndian(SubSeq(s, 5, 8))>>

png_dimensions(d) == Except(PngTry(d))

BmpTry(d) ==
  LET width  == Unpack("<", 4, Slice(d, 18, 22))
      height == Unpack("<", 4, Slice(d, 22, 26))
  IN  Pair(width, height)

bmp_dimensions(d) == Except(BmpTry(d))

WebpTry(d) ==
  LET tag == Slice(d, 12, 16)
  IN  IF tag = S_VP8 /\ BLen(d) >= 30 THEN
        LET w == Unpack("<", 2, Slice(d, 26, 28))
            h == Unpack("<", 2, Slice(d, 28, 30))
        IN  IF w = Raised \/ h = Raised THEN RaisedPair
            ELSE <<LowBits(w, 14), LowBits(h, 14)>>
      ELSE IF tag = S_VP8L /\ BLen(d) >= 25 THEN
        LET b0 == At(d, 21)
            b1 == At(d, 22)
            b2 == At(d, 23)
            b3 == At(d, 24)
        IN  << 1 + (Shl(LowBits(b1, 6), 8) + b0),
               1 + (Shl(LowBits(b3, 4), 10) + Shl(b2, 2) + Shr(b1, 6)) >>
      ELSE IF tag = S_VP8X /\ BLen(d) >= 30 THEN
        << 1 + LittleEndian(Slice(d, 24, 27)),
           1 + LittleEndian(Slice(d, 27, 30)) >>
      ELSE NonePair

webp_dimensions(d) == Except(WebpTry(d))

\* The for loop of _tiff_dimensions from entry i on, with the running width
\* and height.  Line 315 tests whether the names are bound ("width" in
\* locals()), and both are bound by line 299, so the test is true in every
\* iteration that reaches it.
RECURSIVE TiffEntries(_, _, _, _, _, _, _)
TiffEntries(d, endian, offset, num_entries, i, width, height) ==
  IF i >= num_entries THEN NonePair
  ELSE
    LET start == offset + 2 + i * 12
    IN  IF start + 12 > BLen(d) THEN NonePair
        ELSE
          LET tag == Unpack(endian, 2, Slice(d, start, start + 2))
              value_offset == start + 8
              value == Unpack(endian, 4, Slice(d, value_offset, value_offset + 4))
              w == IF tag = 256 THEN value ELSE width
              h == IF tag # 256 /\ tag = 257 THEN value ELSE height
              namesBound == TRUE
          IN  IF tag = Raised \/ w = Raised \/ h = Raised THEN RaisedPair
              ELSE IF namesBound THEN <<w, h>>
              ELSE TiffEntries(d, endian, offset, num_entries, i + 1, w, h)

TiffTry(d) ==
  LET endian == IF Slice(d, 0, 2) = S_II THEN "<" ELSE ">"
      offset == Unpack(endian, 4, Slice(d, 4, 8))
  IN  IF offset = Raised THEN RaisedPair
      ELSE IF offset + 2 > BLen(d) THEN NonePair
      ELSE LET num_entries == Unpack(endian, 2, Slice(d, offset, offset + 2))
           IN  IF num_entries = Raised THEN RaisedPair
               ELSE TiffEntries(d, endian, offset, num_entries, 0, None, None)

tiff_dimensions(d) == Except(TiffTry(d))

(***************************************************************************)
(* The two JPEG walks, one loop iteration each (lines 190-217).            *)
(***************************************************************************)
\* while i < len(data) - 1
QuantCond(d, i) == i < BLen(d) - 1

\* One iteration of the loop of jpeg_quant_tables at cursor i: the new cursor
\* and table count.  data[i+2 : i+4] is short at the end of the buffer, where
\* struct.unpack raises and the handler advances by one.
QuantIter(d, i, tables) ==
  IF At(d, i) = 255 /\ At(d, i + 1) = 219 THEN
    LET length == Unpack(">", 2, Slice(d, i + 2, i + 4))
    IN  IF length = Raised THEN [i |-> i + 1, tables |-> tables]
        ELSE [i |-> i + length, tables |-> tables + 1]
  ELSE [i |-> i + 1, tables |-> tables]

\* while i < len(data) - 9
SofCond(d, i) == i < BLen(d) - 9

\* data[i] == 0xFF and data[i + 1] in [0xC0, 0xC2]
SofMarker(d, i) == At(d, i) = 255 /\ At(d, i + 1) \in {192, 194}

\* the return of jpeg_resolution at a Start-Of-Frame marker at i
SofDims(d, i) ==
  LET height == Unpack(">", 2, Slice(d, i + 5, i + 7))
      width  == Unpack(">", 2, Slice(d, i + 7, i + 9))
  IN  Except(Pair(width, height))

(***************************************************************************)
(* Truthiness of Optional values: "if x", "not x", "a or b".               *)
(***************************************************************************)
Truthy(x) == x # None /\ x # 0
TruthyStr(s) == s # NoneStr /\ s # << >>
OrStr(a, b) == IF TruthyStr(a) THEN a ELSE b

(***************************************************************************)
(* Textual heuristics (lines 159-187, 236-244, 358-382)                    *)
(***************************************************************************)
has_exif_from_text(d) ==
  Contains(d, S_Exif) \/ Contains(d, S_Make) \/ Contains(d, S_Model)

\* has_exif_from_text(ascii_meta) or (b"Exif" in data[:4096])     (line 396)
ExifPresent(d) ==
  has_exif_from_text(d) \/ SeqContains(Slice(d, 0, 4096), S_Exif)

\* _find_in_ascii: the first candidate, in catalog order, that occurs
find_in_ascii(d, search) ==
  LET hits == {k \in 1..Len(search) : Contains(d, search[k])}
  IN  IF hits = {} THEN NoneStr
      ELSE search[CHOOSE k \in hits : \A j \in hits : k <= j]

ExtractModel(d) ==
  IF Contains(d, S_iPhone) THEN S_iPhone
  ELSE IF Contains(d, S_SM) THEN S_SamsungGalaxy
  ELSE IF Contains(d, S_Pixel) THEN S_Pixel
  ELSE IF Contains(d, S_Mate) \/ Contains(d, S_P20) \/ Contains(d, S_P30)
       THEN S_HuaweiPhone
  ELSE IF Contains(d, S_MI) \/ Contains(d, S_Redmi) THEN S_XiaomiPhone
  ELSE NoneStr

\* extract_make_model: <<make, model>>
extract_make_model(d) == <<find_in_ascii(d, KNOWN_MAKES), ExtractModel(d)>>

detect_editing_tags(d) == find_in_ascii(d, EDIT_SOFTWARE_TAGS)

IsDigit(c) == c \in 48..57

\* number of consecutive digits of the text from position p on
RECURSIVE DigitRun(_, _)
DigitRun(d, p) ==
  IF p < Len(d.body) /\ IsDigit(At(d, p)) THEN 1 + DigitRun(d, p + 1) ELSE 0

\* value of the decimal digits data[p : p + n]
RECURSIVE DecimalValue(_, _, _)
DecimalValue(d, p, n) ==
  IF n = 0 THEN 0
  ELSE 10 * DecimalValue(d, p, n - 1) + (At(d, p + n - 1) - 48)

\* re.search(r"20\d{2}:\d{2}:\d{2} \d{2}:\d{2}:\d{2}", ascii_data)
TimestampAt(d, p) ==
  /\ p + 19 <= Len(d.body)
  /\ At(d, p) = 50 /\ At(d, p + 1) = 48
  /\ \A k \in {2, 3, 5, 6, 8, 9, 11, 12, 14, 15, 17, 18} : IsDigit(At(d, p + k))
  /\ \A k \in {4, 7, 13, 16} : At(d, p + k) = 58
  /\ At(d, p + 10) = 32

Timestamp(d) ==
  LET hits == {p \in 0..(Len(d.body) - 1) : TimestampAt(d, p)}
  IN  IF hits = {} THEN NoneStr
      ELSE LET p == CHOOSE q \in hits : \A j \in hits : q <= j
           IN  Slice(d, p, p + 19)

\* ascii_data[idx : idx + 30] at the first "Orientation"
Orientation(d) ==
  LET hits == {p \in 0..(Len(d.body) - 1) : Slice(d, p, p + 11) = S_Orientation}
  IN  IF hits = {} THEN NoneStr
      ELSE LET idx == CHOOSE q \in hits : \A j \in hits : q <= j
           IN  Slice(d, idx, idx + 30)

\* A match of [-+]?\d{1,3}\.\d+ starting at p: [int |-> first digit,
\* n |-> integer digits, end |-> end of the match], or n = 0 for no match.
\* \d{1,3} must be followed by "." so it matches a digit run of 1..3 only.
GpsMatchAt(d, p) ==
  LET q == IF At(d, p) \in {43, 45} THEN p + 1 ELSE p
      r == DigitRun(d, q)
      f == DigitRun(d, q + r + 1)
  IN  IF r \in 1..3 /\ q + r < Len(d.body) /\ At(d, q + r) = 46 /\ f >= 1
      THEN [int |-> q, n |-> r, end |-> q + r + 1 + f]
      ELSE [int |-> q, n |-> 0, end |-> p + 1]

\* -180 <= float(match) <= 180
GpsInRange(d, m) ==
  LET whole == DecimalValue(d, m.int, m.n)
      frac  == Slice(d, m.int + m.n + 1, m.end)
  IN  whole < 180 \/ (whole = 180 /\ \A k \in 1..Len(frac) : frac[k] = 48)

\* bool(gps_coords): gps_pattern.findall scans left to right and resumes
\* after each match
RECURSIVE GpsFrom(_, _)
GpsFrom(d, p) ==
  IF p >= Len(d.body) THEN FALSE
  ELSE LET m == GpsMatchAt(d, p)
       IN  IF m.n > 0 /\ GpsInRange(d, m) THEN TRUE ELSE GpsFrom(d, m.end)

\* extract_extra_metadata: <<timestamp, orientation, gps_info_present>>
extract_extra_metadata(d) == <<Timestamp(d), Orientation(d), GpsFrom(d, 0)>>

(***************************************************************************)
(* size_resolution_check (lines 220-233): <<ok, msg>>                      *)
(***************************************************************************)
MiB == 1024 * 1024

\* size_resolution_check with the resolution looked at before the size
size_resolution_check_ResolutionFirst(d, width, height) ==
  IF Truthy(width) /\ Truthy(height) /\ (width < 500 \/ height < 500)
       THEN <<FALSE, R_ResLow>>
  ELSE IF Truthy(width) /\ Truthy(height) /\ (width > 12000 \/ height > 12000)
       THEN <<FALSE, R_ResHigh>>
  ELSE IF 10 * BLen(d) < MiB THEN <<FALSE, R_TooSmall>>
  ELSE IF BLen(d) > 20 * MiB THEN <<FALSE, R_TooLarge>>
  ELSE <<TRUE, NoneStr>>

size_resolution_check(d, width, height) ==
  \* size_mb < 0.1, with size_mb = len(data) / 2^20 computed exactly
  IF 10 * BLen(d) < MiB THEN <<FALSE, R_TooSmall>>
  ELSE IF BLen(d) > 20 * MiB THEN <<FALSE, R_TooLarge>>
  ELSE IF Truthy(width) /\ Truthy(height) /\ (width < 500 \/ height < 500)
       THEN <<FALSE, R_ResLow>>
  ELSE IF Truthy(width) /\ Truthy(height) /\ (width > 12000 \/ height > 12000)
       THEN <<FALSE, R_ResHigh>>
  ELSE <<TRUE, NoneStr>>

(***************************************************************************)
(* detect_screenshot (lines 344-355).  Aspects are held in hundredths.     *)
(***************************************************************************)
\* round(width / height, 2), in hundredths.  A quotient exactly half way
\* between two hundredths is rounded to the even one when it is a binary
\* fraction (0.125 -> 0.12); other exact ties depend on the binary64
\* quotient and are kept out of the inputs (see NoRoundingTie).
AspectHundredths(width, height) ==
  LET q == (100 * width) \div height
      r == (100 * width) % height
  IN  IF 2 * r < height THEN q
      ELSE IF 2 * r > height THEN q + 1
      ELSE IF q % 2 = 0 THEN q ELSE q + 1

common_aspects == <<133, 150, 160, 177, 200>>

\* abs(aspect - ca) < 0.05 in binary64.  Up to 0.04 apart the test holds and
\* from 0.06 on it fails; at exactly 0.05 apart the rounded difference is
\* below the binary64 0.05 for 1.38 - 1.33, 1.65 - 1.6 and 2.05 - 2.0 only.
WithinTolerance(aspect, ca) ==
  \/ Abs(aspect - ca) < 5
  \/ <<aspect, ca>> \in {<<138, 133>>, <<165, 160>>, <<205, 200>>}

detect_screenshot(exif_present, make, model, width, height) ==
  IF ~Truthy(width) \/ ~Truthy(height) THEN FALSE
  ELSE
    LET aspect == IF height > 0 THEN AspectHundredths(width, height) ELSE 0
    IN  /\ ~exif_present /\ ~TruthyStr(make) /\ ~TruthyStr(model)
        /\ \E k \in 1..Len(common_aspects) : WithinTolerance(aspect, common_aspects[k])

(***************************************************************************)
(* Verdict label and resolution string (lines 436-449)                     *)
(***************************************************************************)
\* str.strip(): Python's whitespace code points below 256
IsSpace(c) == c \in {9, 10, 11, 12, 13, 28, 29, 30, 31, 32, 133, 160}

RECURSIVE Strip(_)
Strip(s) ==
  IF s = << >> THEN s
  ELSE IF IsSpace(s[1]) THEN Strip(Tail(s))
  ELSE IF IsSpace(s[Len(s)]) THEN Strip(SubSeq(s, 1, Len(s) - 1))
  ELSE s

\* str(n) for n >= 0
RECURSIVE Decimal(_)
Decimal(n) ==
  IF n < 10 THEN <<48 + n>> ELSE Decimal(n \div 10) \o <<48 + (n % 10)>>

\* VerdictLabel with the numeric branches consulted before make / model
VerdictLabelScoreFirst(screenshot, make, model, score) ==
  IF screenshot THEN V_Screenshot
  ELSE IF make \in CAMERA_MAKES THEN V_StandalonePrefix \o make \o <<41>>
  ELSE IF score >= 4 THEN V_Likely
  ELSE IF score = 3 THEN V_Possibly
  ELSE IF TruthyStr(make) \/ TruthyStr(model) THEN
    Strip(V_CapturedPrefix \o OrStr(make, V_UnknownMake) \o <<32>>
          \o OrStr(model, << >>))
  ELSE V_Insufficient

VerdictLabel(screenshot, make, model, score) ==
  IF screenshot THEN V_Screenshot
  ELSE IF make \in CAMERA_MAKES THEN V_StandalonePrefix \o make \o <<41>>
  ELSE IF TruthyStr(make) \/ TruthyStr(model) THEN
    Strip(V_CapturedPrefix \o OrStr(make, V_UnknownMake) \o <<32>>
          \o OrStr(model, << >>))
  ELSE IF score >= 4 THEN V_Likely
  ELSE IF score = 3 THEN V_Possibly
  ELSE V_Insufficient

ResolutionStr(width, height) ==
  IF Truthy(width) /\ Truthy(height)
  THEN Decimal(width) \o <<120>> \o Decimal(height)
  ELSE NoneStr

(***************************************************************************)
(* Input buffers.  Every buffer is one a caller can pass: the layouts are  *)
(* the ones the extractors read, and all 4-byte fields stay below 2^31.    *)
(***************************************************************************)
\* most chunks after the JPEG signature in a marker-walk buffer
MaxSegs == 3
\* cap on the table count, for the walk that never ends
MaxTables == 8

BE2(n) == <<n \div 256, n % 256>>
BE4(n) == <<0, 0>> \o BE2(n)
LE2(n) == <<n % 256, n \div 256>>
LE3(n) == LE2(n) \o <<0>>
LE4(n) == LE2(n) \o <<0, 0>>
Zeros(n) == [k \in 1..n |-> 0]

Buf(body, pad) == [body |-> body, pad |-> pad]

\* FF DB, declared length 2 + Len(payload), payload
Dqt(payload) == <<255, 219>> \o BE2(2 + Len(payload)) \o payload
\* FF C0 with height at marker + 5 and width at marker + 7, and one byte more
Sof(w, h) == <<255, 192, 0, 11, 8>> \o BE2(h) \o BE2(w) \o <<1>>

JpegSig == <<255, 216>>
PngImage(w, h) ==
  <<137, 80, 78, 71, 13, 10, 26, 10, 0, 0, 0, 13, 73, 72, 68, 82>>
    \o BE4(w) \o BE4(h)
BmpImage(w, h) == S_BM \o Zeros(16) \o LE4(w) \o LE4(h)
RiffWebp == S_RIFF \o <<64, 0, 0, 0>> \o S_WEBP
WebpVp8(w, h) == RiffWebp \o S_VP8 \o Zeros(10) \o LE2(w) \o LE2(h)
WebpVp8l(w, h) ==
  RiffWebp \o S_VP8L \o <<10, 0, 0, 0, 47>>
    \o << (w - 1) % 256,
          (((w - 1) \div 256) % 64) + 64 * ((h - 1) % 4),
          ((h - 1) \div 4) % 256,
          (h - 1) \div 1024 >>
WebpVp8x(w, h) == RiffWebp \o S_VP8X \o Zeros(8) \o LE3(w - 1) \o LE3(h - 1)
\* "RIFF", five bytes, then "WEBP" at offset 9
RiffShifted == S_RIFF \o <<64, 0, 0, 0, 0>> \o S_WEBP \o S_VP8

\* a TIFF: header, IFD offset, entry count, 12-byte entries <<tag, value>>
RECURSIVE TiffEntriesBytes(_, _)
TiffEntriesBytes(little, es) ==
  IF es = << >> THEN << >>
  ELSE (IF little THEN LE2(es[1][1]) \o <<4, 0>> \o LE4(1) \o LE4(es[1][2])
        ELSE BE2(es[1][1]) \o <<0, 4>> \o BE4(1) \o BE4(es[1][2]))
       \o TiffEntriesBytes(little, Tail(es))

TiffImage(little, offset, es) ==
  (IF little THEN <<73, 73, 42, 0>> \o LE4(offset)
   ELSE <<77, 77, 0, 42>> \o BE4(offset))
  \o Zeros(IF offset > 8 /\ offset < 64 THEN offset - 8 ELSE 0)
  \o (IF little THEN LE2(Len(es)) ELSE BE2(Len(es)))
  \o TiffEntriesBytes(little, es)
  \o <<0, 0, 0, 0>>

TiffEntrySets ==
  { <<<<256, 800>>, <<257, 600>>>>,
    <<<<257, 600>>, <<256, 800>>>>,
    <<<<254, 0>>, <<256, 800>>, <<257, 600>>>>,
    <<<<256, 800>>, <<259, 1>>, <<257, 600>>>>,
    <<<<256, 800>>>>,
    <<<<254, 0>>, <<259, 1>>>>,
    << >> }

TiffImages ==
  {TiffImage(little, 8, es) : little \in BOOLEAN, es \in TiffEntrySets}
    \cup {TiffImage(TRUE, 10, <<<<257, 600>>, <<256, 800>>>>),
          TiffImage(TRUE, 200, <<<<256, 800>>, <<257, 600>>>>)}

\* one well-formed image per layout, and two buffers of no format
Images ==
  { JpegSig \o Dqt(<<1, 1>>) \o Sof(800, 600),
    PngImage(800, 600), BmpImage(800, 600),
    WebpVp8(800, 600), WebpVp8l(400, 300), WebpVp8x(800, 600),
    RiffShifted, <<71, 73, 70, 56, 57, 97, 255, 192>> \o Zeros(10) }
    \cup TiffImages

\* every image cut at every length, the whole image included
TruncatedInputs ==
  UNION { {Buf(SubSeq(img, 1, n), 0) : n \in 0..Len(img)} : img \in Images }

\* chunks of a marker walk: well-formed FF DB segments (the declared length
\* covers the segment), then FF DB with length 0, with length 1, cut after
\* the marker, and a declared length over the end
WellFormedChunks ==
  { Dqt(<< >>), Dqt(<<255, 219>>), Dqt(<<0, 0>>) }
MalformedChunks ==
  { <<255, 219, 0, 0>>, <<255, 219, 0, 1>>, <<255, 219>>, <<255, 219, 0, 9>> }
ScanChunks == WellFormedChunks \cup MalformedChunks

RECURSIVE Concat(_)
Concat(ss) == IF ss = << >> THEN << >> ELSE ss[1] \o Concat(Tail(ss))

ChunkSeqs(S) == UNION {[1..n -> S] : n \in 0..MaxSegs}

ScanInputs ==
  {Buf(JpegSig \o Concat(cs), pad) : cs \in ChunkSeqs(ScanChunks), pad \in {0, 3}}

\* buffers for the scoring: a format, dimensions, and each textual signal
\* present or not, at three sizes (under 0.1 MiB, plausible, over 20 MiB)
Dims == { <<3024, 4032>>, <<1920, 1080>>, <<138, 100>>, <<128, 100>>,
          <<13000, 9000>>, <<0, 0>> }
Apple == KNOWN_MAKES[1]
Canon == KNOWN_MAKES[25]
Lightroom == EDIT_SOFTWARE_TAGS[3]
Opt(present, s) == IF present THEN s ELSE << >>

SignalBody(fmt, wh, exif, make, model, edit, quant) ==
  (IF fmt = "PNG" THEN PngImage(wh[1], wh[2]) ELSE JpegSig)
  \o Opt(exif, S_Exif) \o <<0>> \o make \o <<0>> \o Opt(model, S_iPhone)
  \o Opt(edit, Lightroom)
  \o Opt(quant, Dqt(<<1, 1>>))
  \o (IF fmt = "JPEG" /\ wh # <<0, 0>> THEN Sof(wh[1], wh[2]) ELSE << >>)

Pads == {0, 110000, 20971521}

SignalInputs ==
  { Buf(SignalBody("JPEG", wh, exif, make, model, edit, quant), pad) :
      wh \in Dims, exif \in BOOLEAN, make \in {<< >>, Apple, Canon},
      model \in BOOLEAN, edit \in BOOLEAN, quant \in BOOLEAN, pad \in Pads }
  \cup
  { Buf(SignalBody("PNG", wh, exif, make, FALSE, FALSE, quant), pad) :
      wh \in Dims, exif \in BOOLEAN, make \in {<< >>, Apple, Canon},
      quant \in BOOLEAN, pad \in Pads }

\* buffers at the two size thresholds, to the byte
SizeBody == JpegSig \o Apple \o Dqt(<<1, 1>>) \o Sof(3024, 4032)
SizeInputs ==
  { Buf(SizeBody, n - Len(SizeBody)) :
      n \in {104857, 104858, 20971520, 20971521} }

\* text for the informational detectors
TextInputs ==
  { Buf(t, 0) : t \in
      { <<49, 50, 46, 53>>,                     \* "12.5"
        <<49, 50, 51, 52, 46, 53>>,             \* "1234.5"
        <<57, 57, 57, 46, 57>>,                 \* "999.9"
        <<45, 49, 56, 48, 46, 48>>,             \* "-180.0"
        <<49, 56, 48, 46, 48, 49>>,             \* "180.01"
        <<49, 50, 46>>,                         \* "12."
        S_Orientation \o <<58, 32, 54>>,        \* "Orientation: 6"
        <<50, 48, 50, 52, 58, 48, 49, 58, 48, 50, 32,
          49, 48, 58, 50, 48, 58, 51, 48>> } }  \* "2024:01:02 10:20:30"

\* buffers of another format, or of none, that hold a Start-Of-Frame segment:
\* behind a header whose extractor finds no dimensions (cut short, zero
\* fields, no dimension tag), and behind one PNG header that has them
SofCarriers ==
  { <<71, 73, 70, 56, 57, 97>>,
    <<137, 80, 78, 71, 13, 10, 26, 10>>,
    PngImage(0, 0), PngImage(800, 600),
    S_BM,
    RiffWebp \o S_VP8,
    TiffImage(TRUE, 8, <<<<254, 0>>, <<259, 1>>>>) }

FallbackInputs ==
  { Buf(head \o Sof(wh[1], wh[2]), pad) :
      head \in SofCarriers, wh \in {<<1024, 768>>, <<800, 600>>},
      pad \in {0, 110000} }

Inputs ==
  TruncatedInputs \cup ScanInputs \cup SignalInputs \cup SizeInputs
    \cup TextInputs \cup FallbackInputs

(***************************************************************************)
(* analyze_photo (lines 385-464) as a state machine: one action per        *)
(* statement group, one action per iteration of the two JPEG walks.        *)
(***************************************************************************)
VARIABLES
  data,             \* the buffer read from the file
  pc,               \* position in analyze_photo
  file_type, width, height,
  si, ret,          \* jpeg_resolution: cursor i, and the call site to return to
  qi, tables,       \* jpeg_quant_tables: cursor i and table count
  exif_present, make, model, score, reasons,
  ok, msg, edit_tag, screenshot,
  timestamp, orientation, gps_info_present,
  verdict, resolution

meta    == <<file_type, width, height>>
sofVars == <<si, ret>>
qVars   == <<qi, tables>>
signals == <<exif_present, make, model>>
checks  == <<ok, msg, edit_tag, screenshot>>
extra   == <<timestamp, orientation, gps_info_present>>
result  == <<verdict, resolution>>
vars    == <<data, pc, meta, sofVars, qVars, signals, score, reasons, checks,
             extra, result>>

Init ==
  /\ data \in Inputs
  /\ pc = "sniff"
  /\ file_type = "" /\ width = None /\ height = None
  /\ si = 0 /\ ret = ""
  /\ qi = 0 /\ tables = 0
  /\ exif_present = FALSE /\ make = NoneStr /\ model = NoneStr
  /\ score = 0 /\ reasons = << >>
  /\ ok = FALSE /\ msg = NoneStr /\ edit_tag = NoneStr /\ screenshot = FALSE
  /\ timestamp = NoneStr /\ orientation = NoneStr /\ gps_info_present = FALSE
  /\ verdict = NoneStr /\ resolution = NoneStr

\* the cursor after one iteration that found no marker: i + 1.  Inside the
\* zero padding every further iteration is of this kind, so the run of them
\* is taken in one step, up to the first cursor that ends the loop.
Advance(i, stop) == IF i >= Len(data.body) THEN Max(i + 1, stop) ELSE i + 1

\* load_image_metadata, line 323
Sniff ==
  /\ pc = "sniff"
  /\ file_type' = sniff_file_type(data)
  /\ pc' = "dims"
  /\ UNCHANGED <<data, width, height, sofVars, qVars, signals, score, reasons,
                 checks, extra, result>>

\* load_image_metadata, lines 324-334: the extractor of the sniffed format
Extract ==
  /\ pc = "dims"
  /\ IF file_type = "JPEG"
     THEN /\ si' = 0 /\ ret' = "exif" /\ pc' = "sof"
          /\ UNCHANGED <<width, height>>
     ELSE /\ LET wh == CASE file_type = "PNG"  -> png_dimensions(data)
                         [] file_type = "BMP"  -> bmp_dimensions(data)
                         [] file_type = "WEBP" -> webp_dimensions(data)
                         [] file_type = "TIFF" -> tiff_dimensions(data)
                         [] OTHER              -> NonePair
             IN  width' = wh[1] /\ height' = wh[2]
          /\ pc' = "exif"
          /\ UNCHANGED sofVars
  /\ UNCHANGED <<data, file_type, qVars, signals, score, reasons, checks,
                 extra, result>>

\* jpeg_resolution, lines 207-217: one test of the loop condition and, when
\* it holds, one iteration
SofStep ==
  /\ pc = "sof"
  /\ IF ~SofCond(data, si)
     THEN /\ width' = None /\ height' = None /\ pc' = ret
          /\ UNCHANGED si
     ELSE IF SofMarker(data, si)
     THEN /\ width' = SofDims(data, si)[1] /\ height' = SofDims(data, si)[2]
          /\ pc' = ret
          /\ UNCHANGED si
     ELSE /\ si' = Advance(si, BLen(data) - 9)
          /\ UNCHANGED <<width, height, pc>>
  /\ UNCHANGED <<data, file_type, ret, qVars, signals, score, reasons, checks,
                 extra, result>>

\* lines 396-400
Exif ==
  /\ pc = "exif"
  /\ exif_present' = ExifPresent(data)
  /\ IF exif_present'
     THEN score' = score + 1 /\ UNCHANGED reasons
     ELSE reasons' = Append(reasons, R_MissingExif) /\ UNCHANGED score
  /\ pc' = "makemodel"
  /\ UNCHANGED <<data, meta, sofVars, qVars, make, model, checks, extra, result>>

\* lines 402-408 with the point given whether or not a make or model is found
MakeModelPointAlways ==
  /\ pc = "makemodel"
  /\ make' = extract_make_model(data)[1]
  /\ model' = extract_make_model(data)[2]
  /\ score' = score + 1 /\ UNCHANGED reasons
  /\ qi' = 0 /\ tables' = 0
  /\ pc' = IF Upper(file_type) = "JPEG" THEN "quant" ELSE "qscore"
  /\ UNCHANGED <<data, meta, sofVars, exif_present, checks, extra, result>>

\* lines 402-408: make and model, then the call of jpeg_quant_tables for JPEG
MakeModel ==
  /\ pc = "makemodel"
  /\ make' = extract_make_model(data)[1]
  /\ model' = extract_make_model(data)[2]
  /\ IF TruthyStr(make') \/ TruthyStr(model')
     THEN score' = score + 1 /\ UNCHANGED reasons
     ELSE reasons' = Append(reasons, R_NoMakeModel) /\ UNCHANGED score
  /\ qi' = 0 /\ tables' = 0
  /\ pc' = IF Upper(file_type) = "JPEG" THEN "quant" ELSE "qscore"
  /\ UNCHANGED <<data, meta, sofVars, exif_present, checks, extra, result>>

\* jpeg_quant_tables, lines 193-203: one test of the loop condition and, when
\* it holds, one iteration
QuantStep ==
  /\ pc = "quant"
  /\ tables < MaxTables
  /\ IF ~QuantCond(data, qi)
     THEN pc' = "qscore" /\ UNCHANGED qVars
     ELSE /\ LET it == QuantIter(data, qi, tables)
             IN  /\ qi' = IF it.tables = tables
                          THEN Advance(qi, BLen(data) - 1) ELSE it.i
                 /\ tables' = it.tables
          /\ UNCHANGED pc
  /\ UNCHANGED <<data, meta, sofVars, signals, score, reasons, checks, extra,
                 result>>

\* lines 409-412, qtables being the returned count (0 when not JPEG)
QScore ==
  /\ pc = "qscore"
  /\ IF tables > 0
     THEN score' = score + 1 /\ UNCHANGED reasons
     ELSE IF Upper(file_type) = "JPEG"
     THEN reasons' = Append(reasons, R_NoQuant) /\ UNCHANGED score
     ELSE UNCHANGED <<score, reasons>>
  /\ pc' = "fallback"
  /\ UNCHANGED <<data, meta, sofVars, qVars, signals, checks, extra, result>>

\* analyze_photo without lines 414-415: no second look for a Start-Of-Frame
FallbackSkipped ==
  /\ pc = "fallback"
  /\ pc' = "size"
  /\ UNCHANGED <<data, meta, sofVars, qVars, signals, score, reasons, checks,
                 extra, result>>

\* lines 414-415
Fallback ==
  /\ pc = "fallback"
  /\ IF ~Truthy(width) \/ ~Truthy(height)
     THEN si' = 0 /\ ret' = "size" /\ pc' = "sof"
     ELSE pc' = "size" /\ UNCHANGED sofVars
  /\ UNCHANGED <<data, meta, qVars, signals, score, reasons, checks, extra,
                 result>>

\* lines 416-420
Size ==
  /\ pc = "size"
  /\ ok' = size_resolution_check(data, width, height)[1]
  /\ msg' = size_resolution_check(data, width, height)[2]
  /\ IF ok'
     THEN score' = score + 1 /\ UNCHANGED reasons
     ELSE IF TruthyStr(msg')
     THEN reasons' = Append(reasons, msg') /\ UNCHANGED score
     ELSE UNCHANGED <<score, reasons>>
  /\ pc' = "edit"
  /\ UNCHANGED <<data, meta, sofVars, qVars, signals, edit_tag, screenshot,
                 extra, result>>

\* Edit with the reason appended and the point not taken off
EditKeepsScore ==
  /\ pc = "edit"
  /\ edit_tag' = detect_editing_tags(data)
  /\ IF TruthyStr(edit_tag')
     THEN /\ reasons' = Append(reasons, R_EditPrefix \o edit_tag')
          /\ UNCHANGED score
     ELSE UNCHANGED <<score, reasons>>
  /\ pc' = "screenshot"
  /\ UNCHANGED <<data, meta, sofVars, qVars, signals, ok, msg, screenshot,
                 extra, result>>

\* lines 422-425
Edit ==
  /\ pc = "edit"
  /\ edit_tag' = detect_editing_tags(data)
  /\ IF TruthyStr(edit_tag')
     THEN /\ reasons' = Append(reasons, R_EditPrefix \o edit_tag')
          /\ score' = score - 1
     ELSE UNCHANGED <<score, reasons>>
  /\ pc' = "screenshot"
  /\ UNCHANGED <<data, meta, sofVars, qVars, signals, ok, msg, screenshot,
                 extra, result>>

\* lines 427-430
Screenshot ==
  /\ pc = "screenshot"
  /\ screenshot' = detect_screenshot(exif_present, make, model, width, height)
  /\ IF screenshot'
     THEN /\ reasons' = Append(reasons, R_Screenshot)
          /\ score' = score - 1
     ELSE UNCHANGED <<score, reasons>>
  /\ pc' = "extra"
  /\ UNCHANGED <<data, meta, sofVars, qVars, signals, ok, msg, edit_tag,
                 extra, result>>

\* lines 432-434
Extra ==
  /\ pc = "extra"
  /\ timestamp' = extract_extra_metadata(data)[1]
  /\ orientation' = extract_extra_metadata(data)[2]
  /\ gps_info_present' = extract_extra_metadata(data)[3]
  /\ reasons' = IF gps_info_present' THEN Append(reasons, R_Gps) ELSE reasons
  /\ pc' = "verdict"
  /\ UNCHANGED <<data, meta, sofVars, qVars, signals, score, checks, result>>

\* lines 436-464
Verdict ==
  /\ pc = "verdict"
  /\ verdict' = VerdictLabel(screenshot, make, model, score)
  /\ resolution' = ResolutionStr(width, height)
  /\ pc' = "done"
  /\ UNCHANGED <<data, meta, sofVars, qVars, signals, score, reasons, checks,
                 extra>>

Next ==
  \/ Sniff \/ Extract \/ SofStep \/ Exif \/ MakeModel \/ QuantStep \/ QScore
  \/ Fallback \/ Size \/ Edit \/ Screenshot \/ Extra \/ Verdict

Spec == Init /\ [][Next]_vars

\* The dimensions the buffers carry never put width / height exactly half way
\* between two hundredths, where round() goes by the binary64 quotient.
NoRoundingTie ==
  (Truthy(width) /\ Truthy(height)) => 2 * ((100 * width) % height) # height

(***************************************************************************)
(* Claims                                                                  *)
(***************************************************************************)

\* C1: every iteration of the quantization-table walk of jpeg_quant_tables
\* and of the SOF scan of jpeg_resolution moves the cursor forward by at
\* least one byte, a FF DB marker with declared length 0 included, so both
\* walks reach the end of the buffer and the analysis returns.
C1_EveryIterationAdvances ==
  [][ /\ (pc = "quant" /\ pc' = "quant") => qi' >= qi + 1
      /\ (pc = "sof" /\ pc' = "sof") => si' >= si + 1 ]_vars

\* C2: the sniffed format is the first match among: FF D8 -> JPEG;
\* 89 50 4E 47 -> PNG; 49 49 2A 00 or 4D 4D 00 2A -> TIFF; "RIFF" at 0 with
\* "WEBP" at exactly offset 8 -> WEBP; "BM" -> BMP; anything else, a buffer
\* too short for a prefix or with "WEBP" at another offset included,
\* -> Unknown.
C2_HasPrefix(prefix) ==
  /\ BLen(data) >= Len(prefix)
  /\ \A k \in 1..Len(prefix) : At(data, k - 1) = prefix[k]

C2_Format ==
  IF C2_HasPrefix(<<255, 216>>) THEN "JPEG"
  ELSE IF C2_HasPrefix(<<137, 80, 78, 71>>) THEN "PNG"
  ELSE IF C2_HasPrefix(<<73, 73, 42, 0>>) \/ C2_HasPrefix(<<77, 77, 0, 42>>)
       THEN "TIFF"
  ELSE IF /\ C2_HasPrefix(S_RIFF)
          /\ BLen(data) >= 12
          /\ \A k \in 1..4 : At(data, 7 + k) = S_WEBP[k]
       THEN "WEBP"
  ELSE IF C2_HasPrefix(S_BM) THEN "BMP"
  ELSE "Unknown"

C2_SniffByExactPrefix == pc # "sniff" => file_type = C2_Format

\* 1 for a signal that is present, 0 otherwise
C3_Point(b) == IF b THEN 1 ELSE 0

\* C3: the returned score is [exif_present] + [make or model present]
\* + [format is JPEG and quantization-table count > 0] + [plausibility check
\* passes] - [editing tag present] - [screenshot flag], each taken once and
\* gps_present adding nothing; with EXIF, a make or model, a table and a
\* passing check the score is 4 without an editing tag and 3 with one.
C3_ScoreIsSumOfContributions ==
  pc = "done" =>
    /\ score = C3_Point(exif_present)
               + C3_Point(make # NoneStr \/ model # NoneStr)
               + C3_Point(file_type = "JPEG" /\ tables > 0)
               + C3_Point(ok)
               - C3_Point(edit_tag # NoneStr)
               - C3_Point(screenshot)
    /\ ( /\ exif_present /\ (make # NoneStr \/ model # NoneStr)
         /\ tables > 0 /\ ok /\ ~screenshot )
       => score = IF edit_tag = NoneStr THEN 4 ELSE 3

\* all four points and the editing penalty, with GPS text absent or present
C3_Witness ==
  /\ pc = "done" /\ exif_present /\ make = Apple /\ model = S_iPhone
  /\ file_type = "JPEG" /\ tables = 1 /\ ok /\ edit_tag = Lightroom
  /\ ~screenshot /\ score = 3

\* "Captured with Apple iPhone"
C4_CapturedWithAppleIPhone ==
  <<67, 97, 112, 116, 117, 114, 101, 100, 32, 119, 105, 116, 104, 32,
    65, 112, 112, 108, 101, 32, 105, 80, 104, 111, 110, 101>>

\* the label of the make / model branches, a function of make and model only
C4_MakeModelLabel ==
  IF make \in CAMERA_MAKES THEN V_StandalonePrefix \o make \o <<41>>
  ELSE SubSeq(V_CapturedPrefix, 1, Len(V_CapturedPrefix) - 1)
       \o <<32>> \o (IF make # NoneStr THEN make ELSE V_UnknownMake)
       \o (IF model # NoneStr THEN <<32>> \o model ELSE << >>)

\* C4: the label is the first matching branch of: screenshot flag; make in
\* the standalone-camera subset; make or model present; score >= 4;
\* score = 3; otherwise insufficient evidence.  So with a make or model the
\* label does not depend on the score, nor on an editing tag.
C4_LabelIsFirstMatch ==
  pc = "done" =>
    verdict = IF screenshot THEN V_Screenshot
              ELSE IF make # NoneStr \/ model # NoneStr THEN C4_MakeModelLabel
              ELSE IF score >= 4 THEN V_Likely
              ELSE IF score = 3 THEN V_Possibly
              ELSE V_Insufficient

\* an editing tag lowers the score to 3 and the make / model label stands
C4_Witness ==
  /\ pc = "done" /\ edit_tag = Lightroom /\ score = 3
  /\ make = Apple /\ model = S_iPhone
  /\ verdict = C4_CapturedWithAppleIPhone

\* C5: detect_screenshot is true exactly when exif_present is false, make
\* and model are absent, both dimensions are known, and width / height
\* rounded to 2 decimals is less than 0.05 away from one of 1.33, 1.5, 1.6,
\* 1.77, 2.0.
C5_ScreenshotIffWithinTolerance ==
  pc \in {"extra", "verdict", "done"} =>
    screenshot =
      ( /\ ~exif_present /\ make = NoneStr /\ model = NoneStr
        /\ width > 0 /\ height > 0
        /\ \E k \in 1..Len(common_aspects) :
             Abs(AspectHundredths(width, height) - common_aspects[k]) < 5 )

\* the one reason of the plausibility check, by the first failing test
C6_Reason(len, w, h) ==
  IF len <= 104857 THEN R_TooSmall
  ELSE IF len >= 20971521 THEN R_TooLarge
  ELSE IF w > 0 /\ h > 0 /\ (w <= 499 \/ h <= 499) THEN R_ResLow
  ELSE IF w > 0 /\ h > 0 /\ (w >= 12001 \/ h >= 12001) THEN R_ResHigh
  ELSE NoneStr

\* C6: size_resolution_check gives at most one reason, the first failing of
\* too-small, too-large, resolution-too-low, resolution-too-high (so a buffer
\* under 0.1 MiB is too small whatever its dimensions), and passes exactly
\* when none fails; analyze_photo adds the point on a pass and appends that
\* one reason on a failure.
C6_OneReasonInOrder ==
  [][ pc = "size" =>
        LET r == C6_Reason(BLen(data), width, height)
        IN  /\ msg' = r
            /\ ok' = (r = NoneStr)
            /\ IF r = NoneStr
               THEN score' = score + 1 /\ reasons' = reasons
               ELSE score' = score /\ reasons' = Append(reasons, r) ]_vars

\* a buffer under 0.1 MiB with low-resolution dimensions is reported too small
C6_Witness ==
  /\ pc = "edit" /\ BLen(data) < 104858 /\ width = 138 /\ height = 100
  /\ ~ok /\ msg = R_TooSmall /\ reasons[Len(reasons)] = R_TooSmall

\* a well-formed FF DB segment at k: the marker, a big-endian length >= 2,
\* and the whole segment inside the buffer
C7_WellFormedAt(k) ==
  /\ k + 4 <= BLen(data)
  /\ At(data, k) = 255 /\ At(data, k + 1) = 219
  /\ LET length == 256 * At(data, k + 2) + At(data, k + 3)
     IN  length >= 2 /\ k + 2 + length <= BLen(data)

C7_WellFormedCount ==
  Cardinality({k \in 0..(Len(data.body) - 1) : C7_WellFormedAt(k)})

\* C7: a buffer with no well-formed FF DB segment has table count 0, and the
\* reason "No JPEG quantization tables found" is given only to a JPEG with
\* count 0.
C7_CountOfWellFormedSegments ==
  /\ (pc = "qscore" /\ C7_WellFormedCount = 0) => tables = 0
  /\ (\E k \in 1..Len(reasons) : reasons[k] = R_NoQuant)
       => (file_type = "JPEG" /\ tables = 0)

\* the IFD offset of a TIFF header, by its byte-order mark
C8_TiffOffset ==
  IF At(data, 0) = 73 THEN LittleEndian(Slice(data, 4, 8))
  ELSE BigEndian(Slice(data, 4, 8))

\* the buffer ends before the bytes the extractor of its format reads, or the
\* IFD offset points outside it
C8_Truncated ==
  CASE file_type = "PNG"  -> BLen(data) < 24
    [] file_type = "BMP"  -> BLen(data) < 26
    [] file_type = "WEBP" ->
         \/ BLen(data) < 16
         \/ Slice(data, 12, 16) \in {S_VP8, S_VP8X} /\ BLen(data) < 30
         \/ Slice(data, 12, 16) = S_VP8L /\ BLen(data) < 25
    [] file_type = "TIFF" ->
         \/ BLen(data) < 8
         \/ C8_TiffOffset + 2 > BLen(data)
         \/ C8_TiffOffset + 2 + 12 > BLen(data)
    [] file_type = "JPEG" ->
         \A k \in 0..(Len(data.body) - 1) :
           SofMarker(data, k) => k + 9 > BLen(data)
    [] OTHER -> FALSE

\* C8: every dimension extractor is total: it never raises to its caller,
\* and on a buffer truncated before the bytes it reads, or with an offset
\* outside the buffer, it returns (None, None).
C8_ExtractorsAreTotal ==
  /\ width # Raised /\ height # Raised
  /\ (pc = "exif" /\ C8_Truncated) => (width = None /\ height = None)

\* a BMP cut inside its height field: the width is read, the height raises
C8_Witness ==
  /\ pc = "exif" /\ file_type = "BMP" /\ BLen(data) = 24
  /\ width = None /\ height = None

\* the number of segments when the bytes from pos on are back-to-back
\* well-formed FF DB segments up to the end of the buffer, else -1
RECURSIVE C9_Segments(_)
C9_Segments(pos) ==
  IF pos = BLen(data) THEN 0
  ELSE IF ~C7_WellFormedAt(pos) THEN -1
  ELSE LET rest == C9_Segments(pos + 2 + 256 * At(data, pos + 2) + At(data, pos + 3))
       IN  IF rest < 0 THEN -1 ELSE rest + 1

\* C9: after a FF DB marker at i with declared length L >= 2 is counted, the
\* cursor is i + 2 + L, the first byte after the segment; so a buffer of k
\* back-to-back well-formed FF DB segments (after the signature) has count k.
C9_CursorResumesAfterSegment ==
  [][ /\ ( /\ pc = "quant" /\ pc' = "quant" /\ tables' = tables + 1
           /\ 256 * At(data, qi + 2) + At(data, qi + 3) >= 2 )
         => qi' = qi + 2 + 256 * At(data, qi + 2) + At(data, qi + 3)
      /\ (pc = "quant" /\ pc' = "qscore" /\ C9_Segments(2) >= 0)
         => tables' = C9_Segments(2) ]_vars

\* the entries of the IFD that lie inside the buffer, and the value field of
\* the first one with a given tag
C10_Little == At(data, 0) = 73
C10_Field(a, n) ==
  IF C10_Little THEN LittleEndian(Slice(data, a, a + n))
  ELSE BigEndian(Slice(data, a, a + n))
C10_Entries ==
  {j \in 0..(C10_Field(C8_TiffOffset, 2) - 1) :
     C8_TiffOffset + 2 + 12 * j + 12 <= BLen(data)}
C10_Has(tag) ==
  \E j \in C10_Entries : C10_Field(C8_TiffOffset + 2 + 12 * j, 2) = tag
C10_Value(tag) ==
  LET j == CHOOSE e \in C10_Entries :
             /\ C10_Field(C8_TiffOffset + 2 + 12 * e, 2) = tag
             /\ \A f \in C10_Entries :
                  C10_Field(C8_TiffOffset + 2 + 12 * f, 2) = tag => e <= f
  IN  C10_Field(C8_TiffOffset + 2 + 12 * j + 8, 4)

\* C10: for a TIFF whose IFD lies inside the buffer and holds an entry with
\* tag 256 and one with tag 257, at any positions and in any order,
\* _tiff_dimensions returns (value of tag 256, value of tag 257).
C10_BothTagsFound ==
  ( /\ pc = "exif" /\ file_type = "TIFF"
    /\ BLen(data) >= 8 /\ C8_TiffOffset + 2 <= BLen(data)
    /\ C10_Has(256) /\ C10_Has(257) )
  => (width = C10_Value(256) /\ height = C10_Value(257))

\* what the extractor matching the sniffed format yields; for JPEG and for
\* the scan of lines 414-415, the fields at the first Start-Of-Frame marker
\* that has more than 9 bytes from it to the end of the buffer
C11_FirstSof ==
  LET hits == {k \in 0..(Len(data.body) - 1) :
                 /\ k + 9 < BLen(data)
                 /\ At(data, k) = 255 /\ At(data, k + 1) \in {192, 194}}
  IN  IF hits = {} THEN <<None, None>>
      ELSE LET k == CHOOSE h \in hits : \A j \in hits : h <= j
           IN  << 256 * At(data, k + 7) + At(data, k + 8),
                  256 * At(data, k + 5) + At(data, k + 6) >>

C11_Matching ==
  CASE file_type = "PNG"  -> png_dimensions(data)
    [] file_type = "BMP"  -> bmp_dimensions(data)
    [] file_type = "WEBP" -> webp_dimensions(data)
    [] file_type = "TIFF" -> tiff_dimensions(data)
    [] file_type = "JPEG" -> C11_FirstSof
    [] OTHER              -> <<None, None>>

C11_Scored == pc \in {"size", "edit", "screenshot", "extra", "verdict", "done"}

\* C11 as claimed: the dimensions that are scored and echoed are those of
\* the extractor matching the sniffed format, so for a PNG, BMP, WEBP, TIFF
\* or Unknown buffer whose extractor yields absent dimensions the resolution
\* is absent, FF C0 / FF C2 in the buffer or not.
C11_OnlyMatchingExtractor ==
  (C11_Scored /\ file_type # "JPEG" /\ C11_Matching = <<None, None>>)
    => /\ <<width, height>> = <<None, None>>
       /\ pc = "done" => resolution = NoneStr

\* C11 as amended: the dimensions that are scored and echoed are those of
\* the matching extractor when both are non-zero, and otherwise, for every
\* format, those of the Start-Of-Frame scan of the whole buffer; the
\* resolution is absent exactly when one of the two is then absent or 0.
C11_MatchingExtractorThenSofScan ==
  /\ C11_Scored =>
       <<width, height>> =
         IF C11_Matching[1] \notin {None, 0} /\ C11_Matching[2] \notin {None, 0}
         THEN C11_Matching ELSE C11_FirstSof
  /\ pc = "done" =>
       resolution = IF width \in {None, 0} \/ height \in {None, 0} THEN NoneStr
                    ELSE Decimal(width) \o <<120>> \o Decimal(height)

\* a buffer of no known format with a Start-Of-Frame segment: "1024x768"
C11_Witness ==
  /\ pc = "done" /\ file_type = "Unknown" /\ C11_Matching = <<None, None>>
  /\ resolution = <<49, 48, 50, 52, 120, 55, 54, 56>>

\* C12: the dimensions an extractor of lines 261-319 hands back are either
\* both absent or a width and a height that are both present and at least 1:
\* never a 0, never one component without the other.
C12_AbsentOrBothPositive ==
  (pc = "exif" /\ file_type \in {"PNG", "BMP", "WEBP", "TIFF"})
    => \/ width = None /\ height = None
       \/ width # None /\ height # None /\ width >= 1 /\ height >= 1

\* C13: the score is always between -2 and 4; a buffer with no screenshot
\* flag and neither make nor model has score at most 3, so the label "Likely
\* captured with a real-world camera" is never given, and a score of 4 comes
\* only with a make or model, under a make / model label.
C13_ScoreBoundsAndNoLikelyLabel ==
  /\ score \in -2..4
  /\ pc = "done" =>
       /\ (~screenshot /\ make = NoneStr /\ model = NoneStr) => score <= 3
       /\ verdict # V_Likely
       /\ score = 4 =>
            /\ make # NoneStr \/ model # NoneStr
            /\ \/ StartsWith(Buf(verdict, 0), V_StandalonePrefix)
               \/ StartsWith(Buf(verdict, 0), V_CapturedPrefix)

\* EXIF, a table and a plausible size, no make and no model: score 3,
\* "Possibly captured with a real-world camera"
C13_Witness ==
  /\ pc = "done" /\ ~screenshot /\ make = NoneStr /\ model = NoneStr
  /\ exif_present /\ tables > 0 /\ ok
  /\ score = 3 /\ verdict = V_Possibly
=============================================================================
